---- MODULE Spec2Model ----
(***************************************************************************)
(* Model of the polymorphic stream system (ex1/data_stream.py) and of the  *)
(* pipeline system (ex2/nexus_pipeline.py).                                *)
(*                                                                         *)
(* Python strings are sequences of one-character strings, so that split,   *)
(* strip, lower, startswith and float() are computed, not assumed.         *)
(* Numbers are integers: every numeric literal of the item catalogue is an *)
(* integer, for which Python's float arithmetic is exact.  A float         *)
(* quotient is the reduced fraction <<num, den>> with den > 0.             *)
(***************************************************************************)
EXTENDS Integers, Sequences, FiniteSets, TLC

\* prog       which script runs: "worker" (one worker called directly),
\*            "streams" (StreamProcessor) or "nexus" (NexusManager)
\* streams    StreamProcessor.streams, the registered workers in order
\* pipelines  NexusManager.pipelines, the registered pipelines in order
\* log        per worker, the batches its process_batch has returned from
\* calls      number of process_all calls made so far
\* registered the arguments of the add_stream / add_pipeline calls, in order
\* ret        the last call: its name, arguments and outcome
VARIABLES prog, streams, log, pipelines, calls, registered, ret

vars == <<prog, streams, log, pipelines, calls, registered, ret>>

(***************************************************************************)
(* Bounds                                                                  *)
(***************************************************************************)
\* items one worker processes in a run, over all its batches
MaxItems == 3
\* successful process_batch calls on one worker in a run
MaxCalls == 2
\* length of a batch handed to filter_data
MaxFilterLen == 2
\* workers (pipelines) registered with one orchestrator
MaxStreams == 3
\* process_all calls on one orchestrator in a run
MaxDispatch == 1
\* stages added to one pipeline
MaxStages == 3
\* records one pipeline processes in a run
MaxRecords == 2

(***************************************************************************)
(* Python str methods                                                      *)
(***************************************************************************)
Digits == <<"0", "1", "2", "3", "4", "5", "6", "7", "8", "9">>

IsDigit(c) == \E i \in 1..10 : Digits[i] = c

DigitVal(c) == (CHOOSE i \in 1..10 : Digits[i] = c) - 1

Lower(c) ==
  CASE c = "B" -> "b" [] c = "U" -> "u" [] c = "Y" -> "y"
    [] c = "S" -> "s" [] c = "E" -> "e" [] c = "L" -> "l"
    [] c = "R" -> "r" [] c = "O" -> "o"
    [] OTHER -> c

StrLower(s) == [i \in 1..Len(s) |-> Lower(s[i])]

IsSpace(c) == c \in {" ", "\n", "\t"}

RECURSIVE LStrip(_)
LStrip(s) == IF s # <<>> /\ IsSpace(Head(s)) THEN LStrip(Tail(s)) ELSE s

RECURSIVE RStrip(_)
RStrip(s) ==
  IF s # <<>> /\ IsSpace(s[Len(s)]) THEN RStrip(SubSeq(s, 1, Len(s) - 1)) ELSE s

Strip(s) == RStrip(LStrip(s))

\* index of the first ":" of s, 0 when there is none
RECURSIVE FindColon(_, _)
FindColon(s, i) ==
  IF i > Len(s) THEN 0 ELSE IF s[i] = ":" THEN i ELSE FindColon(s, i + 1)

HasColon(s) == FindColon(s, 1) # 0

\* s.split(":", 1) for a string that contains ":"
Split1(s) ==
  LET i == FindColon(s, 1)
  IN  <<SubSeq(s, 1, i - 1), SubSeq(s, i + 1, Len(s))>>

StartsWith(s, p) == Len(p) <= Len(s) /\ SubSeq(s, 1, Len(p)) = p

RECURSIVE DigitsVal(_, _)
DigitsVal(s, acc) ==
  IF s = <<>> THEN acc ELSE DigitsVal(Tail(s), 10 * acc + DigitVal(Head(s)))

AllDigits(s) == s # <<>> /\ \A i \in 1..Len(s) : IsDigit(s[i])

\* float(s): surrounding whitespace is ignored, one optional sign, then
\* digits.  Anything else raises ValueError (ok = FALSE).  The catalogue has
\* no ".", no exponent and no "inf"/"nan" spelling.
ParseFloat(s) ==
  LET t == Strip(s)
      signed == t # <<>> /\ Head(t) \in {"-", "+"}
      body == IF signed THEN Tail(t) ELSE t
  IN  IF AllDigits(body)
      THEN [ok |-> TRUE,
            v |-> IF signed /\ Head(t) = "-" THEN 0 - DigitsVal(body, 0)
                  ELSE DigitsVal(body, 0)]
      ELSE [ok |-> FALSE, v |-> 0]

RECURSIVE NatStr(_)
NatStr(n) ==
  IF n < 10 THEN <<Digits[n + 1]>> ELSE NatStr(n \div 10) \o <<Digits[(n % 10) + 1]>>

\* f"{x:.0f}" for an integer-valued float
Fmt0f(n) == IF n < 0 THEN <<"-">> \o NatStr(0 - n) ELSE NatStr(n)

(***************************************************************************)
(* Float quotient and round(x, 2)                                          *)
(***************************************************************************)
RECURSIVE GCD(_, _)
GCD(a, b) == IF b = 0 THEN a ELSE GCD(b, a % b)

Abs(n) == IF n < 0 THEN 0 - n ELSE n

\* a / b for b > 0
TrueDiv(a, b) ==
  LET g == GCD(Abs(a), b) IN <<a \div g, b \div g>>

\* round(q, 2), in hundredths; ties go to the even neighbour
Round2(q) ==
  LET n == 100 * q[1]
      f == n \div q[2]
      r == n % q[2]
  IN  IF 2 * r < q[2] THEN f
      ELSE IF 2 * r > q[2] THEN f + 1
      ELSE IF f % 2 = 0 THEN f ELSE f + 1

RECURSIVE SeqSum(_)
SeqSum(s) == IF s = <<>> THEN 0 ELSE Head(s) + SeqSum(Tail(s))

(***************************************************************************)
(* Values: batch items, batches, workers                                   *)
(***************************************************************************)
Str(s) == [t |-> "str", s |-> s, n |-> 0]

\* a non-string item, such as the integer n
Num(n) == [t |-> "int", s |-> <<>>, n |-> n]

IsStr(item) == item.t = "str"

List(items) == [isList |-> TRUE, items |-> items]

\* an argument that is not a list (None, a tuple, a string, ...)
NotAList == [isList |-> FALSE, items |-> <<>>]

Kinds == {"Sensor", "Transaction", "Event"}

\* DataStream.__init__ and the three subclass constructors
NewStream(kind, id) ==
  [stream_id |-> id, kind |-> kind,
   stream_type |-> CASE kind = "Sensor" -> "Environmental Data"
                     [] kind = "Transaction" -> "Financial Data"
                     [] kind = "Event" -> "System Events",
   history |-> <<>>,
   operations_count |-> 0, total_net_flow |-> 0,
   events_count |-> 0, error_count |-> 0]

\* outcome of a call: the exception raised ("none" when it returns), its
\* message, the returned value and the receiver after the call
Returned(value, self) ==
  [raised |-> "none", msg |-> "", value |-> value, self |-> self]

Raised(exc, msg, self) ==
  [raised |-> exc, msg |-> msg, value |-> <<>>, self |-> self]

\* the summary strings, field by field
Summary(tag, count, avg, net, errors) ==
  [tag |-> tag, id |-> "", count |-> count, avg |-> avg, net |-> net,
   errors |-> errors, msg |-> ""]

(***************************************************************************)
(* SensorStream                                                            *)
(***************************************************************************)
\* mutant: the item is counted before its number is parsed
RECURSIVE SensorLoop_CountsUnparsed(_, _, _)
SensorLoop_CountsUnparsed(items, i, acc) ==
  IF i > Len(items) THEN acc
  ELSE LET item == items[i]
           colon == IsStr(item) /\ HasColon(item.s)
           p == IF colon THEN ParseFloat(Split1(item.s)[2]) ELSE [ok |-> FALSE, v |-> 0]
       IN  IF p.ok
           THEN SensorLoop_CountsUnparsed(items, i + 1,
                  [history |-> Append(acc.history, p.v),
                   batch_sum |-> acc.batch_sum + p.v,
                   current_batch_count |-> acc.current_batch_count + 1])
           ELSE IF colon
           THEN SensorLoop_CountsUnparsed(items, i + 1,
                  [acc EXCEPT !.current_batch_count = @ + 1])
           ELSE SensorLoop_CountsUnparsed(items, i + 1, acc)

\* the for loop of SensorStream.process_batch, from item i on
RECURSIVE SensorLoop(_, _, _)
SensorLoop(items, i, acc) ==
  IF i > Len(items) THEN acc
  ELSE LET item == items[i]
           p == IF IsStr(item) /\ HasColon(item.s)
                THEN ParseFloat(Split1(item.s)[2])
                ELSE [ok |-> FALSE, v |-> 0]
       IN  IF p.ok
           THEN SensorLoop(items, i + 1,
                  [history |-> Append(acc.history, p.v),
                   batch_sum |-> acc.batch_sum + p.v,
                   current_batch_count |-> acc.current_batch_count + 1])
           ELSE SensorLoop(items, i + 1, acc)

\* mutant: a batch without a well-formed item is rejected
Sensor_process_batch_Strict(self, data_batch) ==
  LET r == SensorLoop(data_batch.items, 1,
             [history |-> self.history, batch_sum |-> 0, current_batch_count |-> 0])
  IN  IF ~data_batch.isList
      THEN Raised("ValueError", "data_batch should be a list!", self)
      ELSE IF r.current_batch_count = 0
      THEN Raised("ValueError", "no valid readings", self)
      ELSE Returned(Summary("Sensor analysis", r.current_batch_count,
                            TrueDiv(r.batch_sum, r.current_batch_count), <<>>, 0),
                    [self EXCEPT !.history = r.history])

\* mutant: the history is restarted by every call
Sensor_process_batch_Forgetful(self, data_batch) ==
  IF ~data_batch.isList
  THEN Raised("ValueError", "data_batch should be a list!", self)
  ELSE LET r == SensorLoop(data_batch.items, 1,
                  [history |-> <<>>, batch_sum |-> 0, current_batch_count |-> 0])
           avg == IF r.current_batch_count > 0
                  THEN TrueDiv(r.batch_sum, r.current_batch_count)
                  ELSE <<0, 1>>
       IN  Returned(Summary("Sensor analysis", r.current_batch_count, avg, <<>>, 0),
                    [self EXCEPT !.history = r.history])

Sensor_process_batch(self, data_batch) ==
  IF ~data_batch.isList
  THEN Raised("ValueError", "data_batch should be a list!", self)
  ELSE LET r == SensorLoop(data_batch.items, 1,
                  [history |-> self.history, batch_sum |-> 0,
                   current_batch_count |-> 0])
           avg == IF r.current_batch_count > 0
                  THEN TrueDiv(r.batch_sum, r.current_batch_count)
                  ELSE <<0, 1>>
       IN  Returned(Summary("Sensor analysis", r.current_batch_count, avg, <<>>, 0),
                    [self EXCEPT !.history = r.history])

Sensor_get_stats(self) ==
  LET total_readings == Len(self.history)
      avg_total == IF total_readings > 0
                   THEN TrueDiv(SeqSum(self.history), total_readings)
                   ELSE <<0, 1>>
  IN  [id |-> self.stream_id, type |-> self.stream_type,
       total_processed |-> total_readings,
       average_value |-> Round2(avg_total)]

(***************************************************************************)
(* TransactionStream                                                       *)
(***************************************************************************)
\* mutant: the action is compared as written, case and blanks included
RECURSIVE TransactionLoop_CaseSensitive(_, _, _)
TransactionLoop_CaseSensitive(items, i, acc) ==
  IF i > Len(items) THEN acc
  ELSE LET item == items[i]
           colon == IsStr(item) /\ HasColon(item.s)
           parts == IF colon THEN Split1(item.s) ELSE <<<<>>, <<>>>>
           p == IF colon THEN ParseFloat(parts[2]) ELSE [ok |-> FALSE, v |-> 0]
           action == parts[1]
       IN  IF p.ok
           THEN TransactionLoop_CaseSensitive(items, i + 1,
                  [total_net_flow |->
                     IF action = <<"b", "u", "y">>
                     THEN acc.total_net_flow + p.v
                     ELSE IF action = <<"s", "e", "l", "l">>
                          THEN acc.total_net_flow - p.v
                          ELSE acc.total_net_flow,
                   current_batch_count |-> acc.current_batch_count + 1,
                   operations_count |-> acc.operations_count + 1])
           ELSE TransactionLoop_CaseSensitive(items, i + 1, acc)

\* the for loop of TransactionStream.process_batch, from item i on
RECURSIVE TransactionLoop(_, _, _)
TransactionLoop(items, i, acc) ==
  IF i > Len(items) THEN acc
  ELSE LET item == items[i]
           colon == IsStr(item) /\ HasColon(item.s)
           parts == IF colon THEN Split1(item.s) ELSE <<<<>>, <<>>>>
           p == IF colon THEN ParseFloat(parts[2]) ELSE [ok |-> FALSE, v |-> 0]
           action == StrLower(Strip(parts[1]))
       IN  IF p.ok
           THEN TransactionLoop(items, i + 1,
                  [total_net_flow |->
                     IF action = <<"b", "u", "y">>
                     THEN acc.total_net_flow + p.v
                     ELSE IF action = <<"s", "e", "l", "l">>
                          THEN acc.total_net_flow - p.v
                          ELSE acc.total_net_flow,
                   current_batch_count |-> acc.current_batch_count + 1,
                   operations_count |-> acc.operations_count + 1])
           ELSE TransactionLoop(items, i + 1, acc)

\* mutant: the batch is counted as an operation before its type is tested
Transaction_process_batch_CountsFailure(self, data_batch) ==
  IF ~data_batch.isList
  THEN Raised("ValueError", "data_batch should be a list!",
              [self EXCEPT !.operations_count = @ + 1])
  ELSE LET r == TransactionLoop(data_batch.items, 1,
                  [total_net_flow |-> self.total_net_flow,
                   current_batch_count |-> 0,
                   operations_count |-> self.operations_count])
           net_sign == IF r.total_net_flow >= 0 THEN <<"+">> ELSE <<>>
       IN  Returned(Summary("Transaction analysis", r.current_batch_count, <<0, 1>>,
                            net_sign \o Fmt0f(r.total_net_flow), 0),
                    [self EXCEPT !.total_net_flow = r.total_net_flow,
                                 !.operations_count = r.operations_count])

Transaction_process_batch(self, data_batch) ==
  IF ~data_batch.isList
  THEN Raised("ValueError", "data_batch should be a list!", self)
  ELSE LET r == TransactionLoop(data_batch.items, 1,
                  [total_net_flow |-> self.total_net_flow,
                   current_batch_count |-> 0,
                   operations_count |-> self.operations_count])
           net_sign == IF r.total_net_flow >= 0 THEN <<"+">> ELSE <<>>
       IN  Returned(Summary("Transaction analysis", r.current_batch_count, <<0, 1>>,
                            net_sign \o Fmt0f(r.total_net_flow), 0),
                    [self EXCEPT !.total_net_flow = r.total_net_flow,
                                 !.operations_count = r.operations_count])

Transaction_get_stats(self) ==
  [id |-> self.stream_id, type |-> self.stream_type,
   total_operations |-> self.operations_count,
   net_flow |-> Round2(<<self.total_net_flow, 1>>)]

(***************************************************************************)
(* EventStream                                                             *)
(***************************************************************************)
ErrorWord == <<"e", "r", "r", "o", "r">>

\* mutant: the item is compared with "error" without being trimmed
RECURSIVE EventLoop_Untrimmed(_, _, _)
EventLoop_Untrimmed(items, i, acc) ==
  IF i > Len(items) THEN acc
  ELSE LET item == items[i]
       IN  IF IsStr(item)
           THEN LET isErr == StrLower(item.s) = ErrorWord
                IN  EventLoop_Untrimmed(items, i + 1,
                      [current_batch_count |-> acc.current_batch_count + 1,
                       events_count |-> acc.events_count + 1,
                       current_error_count |->
                         acc.current_error_count + (IF isErr THEN 1 ELSE 0),
                       error_count |-> acc.error_count + (IF isErr THEN 1 ELSE 0)])
           ELSE EventLoop_Untrimmed(items, i + 1, acc)

\* the for loop of EventStream.process_batch, from item i on
RECURSIVE EventLoop(_, _, _)
EventLoop(items, i, acc) ==
  IF i > Len(items) THEN acc
  ELSE LET item == items[i]
       IN  IF IsStr(item)
           THEN LET isErr == StrLower(Strip(item.s)) = ErrorWord
                IN  EventLoop(items, i + 1,
                      [current_batch_count |-> acc.current_batch_count + 1,
                       events_count |-> acc.events_count + 1,
                       current_error_count |->
                         acc.current_error_count + (IF isErr THEN 1 ELSE 0),
                       error_count |-> acc.error_count + (IF isErr THEN 1 ELSE 0)])
           ELSE EventLoop(items, i + 1, acc)

Event_process_batch(self, data_batch) ==
  IF ~data_batch.isList
  THEN Raised("ValueError", "data_batch should be a list!", self)
  ELSE LET r == EventLoop(data_batch.items, 1,
                  [current_batch_count |-> 0, current_error_count |-> 0,
                   events_count |-> self.events_count,
                   error_count |-> self.error_count])
       IN  Returned(Summary("Event analysis", r.current_batch_count, <<0, 1>>, <<>>,
                            r.current_error_count),
                    [self EXCEPT !.events_count = r.events_count,
                                 !.error_count = r.error_count])

Event_get_stats(self) ==
  [id |-> self.stream_id, type |-> self.stream_type,
   total_events |-> self.events_count, error_count |-> self.error_count]

(***************************************************************************)
(* filter_data                                                             *)
(***************************************************************************)
\* criteria: <<>> stands for None or "", both falsy
PrefixMatch(d, criteria) == IsStr(d) /\ StartsWith(d.s, criteria)

EventMatch(d, criteria) == IsStr(d) /\ StrLower(Strip(d.s)) = StrLower(criteria)

\* SensorStream.filter_data and TransactionStream.filter_data (same body)
Prefix_filter_data(data_batch, criteria) ==
  IF criteria = <<>> THEN data_batch
  ELSE List(SelectSeq(data_batch.items, LAMBDA d : PrefixMatch(d, criteria)))

\* mutant: the item is compared with the criteria without being trimmed
Event_filter_data_Untrimmed(data_batch, criteria) ==
  IF criteria = <<>> THEN data_batch
  ELSE List(SelectSeq(data_batch.items,
                      LAMBDA d : IsStr(d) /\ StrLower(d.s) = StrLower(criteria)))

Event_filter_data(data_batch, criteria) ==
  IF criteria = <<>> THEN data_batch
  ELSE List(SelectSeq(data_batch.items, LAMBDA d : EventMatch(d, criteria)))

\* dynamic dispatch on the class of the worker
process_batch(self, data_batch) ==
  CASE self.kind = "Sensor" -> Sensor_process_batch(self, data_batch)
    [] self.kind = "Transaction" -> Transaction_process_batch(self, data_batch)
    [] self.kind = "Event" -> Event_process_batch(self, data_batch)

get_stats(self) ==
  CASE self.kind = "Sensor" -> Sensor_get_stats(self)
    [] self.kind = "Transaction" -> Transaction_get_stats(self)
    [] self.kind = "Event" -> Event_get_stats(self)

filter_data(self, data_batch, criteria) ==
  IF self.kind = "Event" THEN Event_filter_data(data_batch, criteria)
  ELSE Prefix_filter_data(data_batch, criteria)

(***************************************************************************)
(* Inputs                                                                  *)
(***************************************************************************)
SeqsUpTo(S, n) == UNION {[1..k -> S] : k \in 0..n}

SensorItems ==
  {Str(<<"t", "e", "m", "p", ":", "2", "2">>),
   Str(<<"t", "e", "m", "p", ":", " ", "2", "3", " ">>),
   Str(<<"h", "u", "m", ":", "-", "3">>),
   Str(<<"t", "e", "m", "p", ":", "x">>),
   Str(<<"l", "o", "g", "i", "n">>),
   Num(42)}

TransactionItems ==
  {Str(<<"b", "u", "y", ":", "1", "0", "0">>),
   Str(<<"s", "e", "l", "l", ":", "1", "5", "0">>),
   Str(<<"b", "u", "y", ":", "7", "5">>),
   Str(<<" ", "S", "E", "L", "L", " ", ":", "5">>),
   Str(<<"h", "o", "l", "d", ":", "7">>),
   Str(<<"b", "u", "y", ":", "x">>),
   Num(42)}

EventItems ==
  {Str(<<"l", "o", "g", "i", "n">>),
   Str(<<"e", "r", "r", "o", "r">>),
   Str(<<"l", "o", "g", "o", "u", "t">>),
   Str(<<" ", "E", "R", "R", "O", "R", " ">>),
   Num(42)}

ItemsFor(kind) ==
  CASE kind = "Sensor" -> SensorItems
    [] kind = "Transaction" -> TransactionItems
    [] kind = "Event" -> EventItems

\* filter criteria; <<>> is the absent or empty criteria
CriteriaFor(kind) ==
  CASE kind = "Sensor" -> {<<>>, <<"t", "e", "m", "p">>, <<"h">>, <<"x">>}
    [] kind = "Transaction" -> {<<>>, <<"b", "u", "y">>, <<"s">>, <<"S", "E", "L", "L">>}
    [] kind = "Event" -> {<<>>, ErrorWord, <<"E", "R", "R", "O", "R">>,
                          <<"l", "o", "g">>, <<"e", "r", "r", "o", "r", " ">>}

RECURSIVE TotalLen(_)
TotalLen(batches) ==
  IF batches = <<>> THEN 0 ELSE Len(Head(batches)) + TotalLen(Tail(batches))

Outcome(op, args, r) ==
  [op |-> op, args |-> args, raised |-> r.raised, msg |-> r.msg, value |-> r.value,
   invoked |-> <<>>]

NoCall ==
  [op |-> "init", args |-> <<>>, raised |-> "none", msg |-> "", value |-> <<>>,
   invoked |-> <<>>]

(***************************************************************************)
(* One worker, called directly (as the first half of the ex1 script does)  *)
(***************************************************************************)
InitWorker ==
  /\ prog = "worker"
  /\ \E kind \in Kinds : streams = <<NewStream(kind, "W")>>
  /\ log = <<<<>>>>
  /\ pipelines = <<>>
  /\ calls = 0
  /\ registered = <<>>
  /\ ret = NoCall

\* stream.process_batch(data_batch), the caller catching ValueError
CallProcessBatch ==
  /\ prog = "worker"
  /\ \E data_batch \in
         {NotAList} \cup
         {List(s) : s \in SeqsUpTo(ItemsFor(streams[1].kind),
                                   IF Len(log[1]) < MaxCalls
                                   THEN MaxItems - TotalLen(log[1]) ELSE -1)} :
       \E r \in {process_batch(streams[1], data_batch)} :
           /\ streams' = <<r.self>>
           /\ log' = IF r.raised = "none"
                     THEN <<Append(log[1], data_batch.items)>> ELSE log
           /\ ret' = Outcome("process_batch", <<data_batch>>, r)
  /\ UNCHANGED <<prog, pipelines, calls, registered>>

CallGetStats ==
  /\ prog = "worker"
  /\ ret' = Outcome("get_stats", <<>>, Returned(get_stats(streams[1]), streams[1]))
  /\ UNCHANGED <<prog, streams, log, pipelines, calls, registered>>

NextWorker == CallProcessBatch \/ CallGetStats

SpecWorker == InitWorker /\ [][NextWorker]_vars

(***************************************************************************)
(* filter_data on one worker                                               *)
(***************************************************************************)
CallFilterData ==
  /\ prog = "worker"
  /\ \E s \in SeqsUpTo(ItemsFor(streams[1].kind), MaxFilterLen),
        criteria \in CriteriaFor(streams[1].kind) :
       ret' = Outcome("filter_data", <<List(s), criteria>>,
                      Returned(filter_data(streams[1], List(s), criteria), streams[1]))
  /\ UNCHANGED <<prog, streams, log, pipelines, calls, registered>>

NextFilter == CallFilterData

SpecFilter == InitWorker /\ [][NextFilter]_vars

(***************************************************************************)
(* StreamProcessor                                                         *)
(***************************************************************************)
\* A dict is the sequence of its <<key, value>> pairs in insertion order,
\* the keys distinct.
Keys(d) == {d[i][1] : i \in 1..Len(d)}

HasKey(d, k) == k \in Keys(d)

Get(d, k) == d[CHOOSE i \in 1..Len(d) : d[i][1] = k][2]

ErrorEntry(id, msg) ==
  [tag |-> "Error processing", id |-> id, count |-> 0, avg |-> <<0, 1>>,
   net |-> <<>>, errors |-> 0, msg |-> msg]

\* the for loop of StreamProcessor.process_all, from stream i on.  acc holds
\* the streams as mutated so far, the results, and the indices of the streams
\* whose process_batch was called, in call order.
RECURSIVE ProcessAllLoop(_, _, _)
ProcessAllLoop(batches, i, acc) ==
  IF i > Len(acc.streams) THEN acc
  ELSE LET stream == acc.streams[i]
       IN  IF HasKey(batches, stream.stream_id)
           THEN LET r == process_batch(stream, Get(batches, stream.stream_id))
                    upd == [acc EXCEPT !.streams[i] = r.self,
                                       !.invoked = Append(@, i)]
                IN  IF r.raised = "none"
                    THEN ProcessAllLoop(batches, i + 1,
                           [upd EXCEPT !.results = Append(@, r.value)])
                    ELSE IF r.raised = "ValueError"
                    THEN ProcessAllLoop(batches, i + 1,
                           [upd EXCEPT !.results =
                              Append(@, ErrorEntry(stream.stream_id, r.msg))])
                    ELSE [upd EXCEPT !.raised = r.raised]
           ELSE ProcessAllLoop(batches, i + 1, acc)

\* mutant: the loop runs over the keys of the batch-map, in their order, and
\* looks the streams up by id
RECURSIVE ByKeyLoop(_, _, _)
ByKeyLoop(batches, k, acc) ==
  IF k > Len(batches) THEN acc
  ELSE ByKeyLoop(batches, k + 1,
         ProcessAllLoop(<<batches[k]>>, 1, acc))

process_all_ByKey(self_streams, batches) ==
  ByKeyLoop(batches, 1,
    [streams |-> self_streams, results |-> <<>>, invoked |-> <<>>,
     raised |-> "none"])

process_all(self_streams, batches) ==
  ProcessAllLoop(batches, 1,
    [streams |-> self_streams, results |-> <<>>, invoked |-> <<>>,
     raised |-> "none"])

Ids == {"A", "B", "C"}

\* the workers a run may register: three ids, three kinds, one id shared
StreamPool ==
  {<<"A", "Sensor">>, <<"B", "Transaction">>, <<"C", "Event">>, <<"A", "Event">>}

\* a list batch every kind finds something in
MixedBatch ==
  List(<<Str(<<"b", "u", "y", ":", "7">>), Str(<<"e", "r", "r", "o", "r">>)>>)

DispatchBatches == {NotAList, MixedBatch}

\* all dicts over keys K with values in V, in every insertion order
DictsOver(K, V) ==
  {d \in UNION {[1..n -> K \X V] : n \in 0..Cardinality(K)} :
     \A i, j \in 1..Len(d) : i # j => d[i][1] # d[j][1]}

IdOrder == <<"A", "B", "C">>

Sorted(d) ==
  \A i, j \in 1..Len(d) :
    i < j => \E a, b \in 1..Len(IdOrder) :
               a < b /\ IdOrder[a] = d[i][1] /\ IdOrder[b] = d[j][1]

\* the batch-maps handed to process_all: every assignment of a batch (or of
\* no batch) to the ids, and for the maps of list batches every insertion
\* order of the keys
BatchMaps ==
  {d \in DictsOver(Ids, DispatchBatches) :
     Sorted(d) \/ \A i \in 1..Len(d) : d[i][2].isList}

\* the runs of a StreamProcessor: "streams" calls add_stream and process_all,
\* "frame" calls filter_all and get_all_stats as well, on three workers of
\* distinct ids and batch-maps in one key order
StreamProgs == {"streams", "frame"}

FramePool == {w \in StreamPool : w # <<"A", "Event">>}

PoolFor(p) == IF p = "frame" THEN FramePool ELSE StreamPool

MapsFor(p) == IF p = "frame" THEN {d \in BatchMaps : Sorted(d)} ELSE BatchMaps

DispatchOutcome(op, args, r) ==
  [op |-> op, args |-> args, raised |-> r.raised, msg |-> "",
   value |-> r.results, invoked |-> r.invoked]

\* processor.add_stream(stream) with a newly constructed stream
AddStream ==
  /\ prog \in StreamProgs
  /\ Len(streams) < MaxStreams
  /\ \E w \in PoolFor(prog) :
       /\ streams' = Append(streams, NewStream(w[2], w[1]))
       /\ registered' = Append(registered, w)
       /\ ret' = Outcome("add_stream", <<w>>, Returned(<<>>, <<>>))
  /\ UNCHANGED <<prog, log, pipelines, calls>>

\* processor.process_all(batches)
StreamProcessAll ==
  /\ prog \in StreamProgs
  /\ calls < MaxDispatch
  /\ \E batches \in MapsFor(prog) :
       \E r \in {process_all(streams, batches)} :
           /\ streams' = r.streams
           /\ ret' = DispatchOutcome("process_all", <<batches>>, r)
  /\ calls' = calls + 1
  /\ UNCHANGED <<prog, log, pipelines, registered>>
(***************************************************************************)
(* ex2: Python values handed to the pipelines                              *)
(***************************************************************************)
\* every value has the same shape: n for int and bool (0 or 1), s for the
\* characters of a str, elems for a list, d for a dict (a function from its keys)
EmptyDict == [k \in {} |-> 0]

PyValue(type, n, s, elems, d) ==
  [type |-> type, n |-> n, s |-> s, elems |-> elems, d |-> d]

PyNone == PyValue("none", 0, <<>>, <<>>, EmptyDict)

PyBool(b) == PyValue("bool", IF b THEN 1 ELSE 0, <<>>, <<>>, EmptyDict)

PyInt(n) == PyValue("int", n, <<>>, <<>>, EmptyDict)

PyStr(s) == PyValue("str", 0, s, <<>>, EmptyDict)

PyList(elems) == PyValue("list", 0, <<>>, elems, EmptyDict)

PyDict(f) == PyValue("dict", 0, <<>>, <<>>, f)

IsDict(x) == x.type = "dict"

\* bool(x)
Truthy(x) ==
  CASE x.type = "none" -> FALSE
    [] x.type \in {"bool", "int"} -> x.n # 0
    [] x.type = "str" -> x.s # <<>>
    [] x.type = "list" -> x.elems # <<>>
    [] x.type = "dict" -> DOMAIN x.d # {}

\* d.get(key, default)
DictGet(d, key, default) == IF key \in DOMAIN d.d THEN d.d[key] ELSE default

\* d[key] = val
DictSet(d, key, val) ==
  PyDict([k \in DOMAIN d.d \cup {key} |-> IF k = key THEN val ELSE d.d[k]])

\* sys.float_info.max, scaled down: the largest magnitude a float holds
FloatMax == 1000

(***************************************************************************)
(* Stages                                                                  *)
(***************************************************************************)
InputStage_process(data) ==
  IF data.type = "none"
  THEN Raised("ValueError", "No input data provided", <<>>)
  ELSE Returned(PyDict("raw" :> data @@ "validated" :> PyBool(TRUE)), <<>>)

TransformStage_process(data) ==
  IF ~IsDict(data) \/ ~Truthy(DictGet(data, "validated", PyNone))
  THEN Raised("ValueError", "Invalid data format", <<>>)
  ELSE Returned(DictSet(DictSet(data, "transformed", PyBool(TRUE)),
                        "enriched", PyBool(TRUE)), <<>>)

\* mutant: the output stage delivers whatever dict it is given
OutputStage_process_Unchecked(data) ==
  IF ~IsDict(data)
  THEN Raised("ValueError", "Data not transformed", <<>>)
  ELSE Returned(DictSet(data, "delivered", PyBool(TRUE)), <<>>)

OutputStage_process(data) ==
  IF ~IsDict(data) \/ ~Truthy(DictGet(data, "transformed", PyNone))
  THEN Raised("ValueError", "Data not transformed", <<>>)
  ELSE Returned(DictSet(data, "delivered", PyBool(TRUE)), <<>>)

Stages == {"Input", "Transform", "Output"}

\* stage.process(data), by the class of the stage
Stage_process(stage, data) ==
  CASE stage = "Input" -> InputStage_process(data)
    [] stage = "Transform" -> TransformStage_process(data)
    [] stage = "Output" -> OutputStage_process(data)

(***************************************************************************)
(* ProcessingPipeline and the adapters                                     *)
(***************************************************************************)
\* ProcessingPipeline.__init__
NewPipeline(adapter, id, stages) ==
  [pipeline_id |-> id, adapter |-> adapter, stages |-> stages,
   records_processed |-> 0]

\* the for loop of run_stages, from stage i on; ran counts the stages whose
\* process was called
RECURSIVE RunStagesLoop(_, _, _, _)
RunStagesLoop(stages, i, result, ran) ==
  IF i > Len(stages)
  THEN [raised |-> "none", msg |-> "", value |-> result, ran |-> ran]
  ELSE LET r == Stage_process(stages[i], result)
       IN  IF r.raised = "none"
           THEN RunStagesLoop(stages, i + 1, r.value, ran + 1)
           ELSE [raised |-> r.raised, msg |-> r.msg, value |-> <<>>, ran |-> ran + 1]

\* run_stages counting the record before the stages have run
run_stages_CountsFirst(self, data) ==
  LET r == RunStagesLoop(self.stages, 1, data, 0)
  IN  [raised |-> r.raised, msg |-> r.msg, value |-> r.value, ran |-> r.ran,
       self |-> [self EXCEPT !.records_processed = @ + 1]]

run_stages(self, data) ==
  LET r == RunStagesLoop(self.stages, 1, data, 0)
  IN  [raised |-> r.raised, msg |-> r.msg, value |-> r.value, ran |-> r.ran,
       self |-> IF r.raised = "none"
                THEN [self EXCEPT !.records_processed = @ + 1]
                ELSE self]

IsNumber(x) == x.type \in {"int", "bool"}

NumVal(x) == x.n

JSONAdapter_process(self, data) ==
  IF ~IsDict(data)
  THEN Raised("ValueError", "JSON adapter requires dict input", self)
  ELSE LET rs == run_stages(self, data)
           value == DictGet(data, "value", PyInt(0))
           unit == DictGet(data, "unit", PyStr(<<>>))
       IN  IF rs.raised # "none" THEN Raised(rs.raised, rs.msg, rs.self)
           ELSE IF ~IsNumber(value)
           THEN Raised("ValueError", "JSON processing error", rs.self)
           ELSE Returned([tag |-> "Processed temperature reading",
                          value |-> value, unit |-> unit,
                          status |-> IF NumVal(value) < 50 THEN "Normal range"
                                     ELSE "Warning"], rs.self)

\* the number of rows r of s.split("\n") with r.strip() non-empty
RECURSIVE CountRows(_, _)
CountRows(s, inRow) ==
  IF s = <<>> THEN 0
  ELSE IF Head(s) = "\n" THEN CountRows(Tail(s), FALSE)
  ELSE IF IsSpace(Head(s)) \/ inRow THEN CountRows(Tail(s), inRow)
  ELSE 1 + CountRows(Tail(s), TRUE)

CSVAdapter_process(self, data) ==
  IF data.type # "str"
  THEN Raised("ValueError", "CSV adapter requires string input", self)
  ELSE LET rs == run_stages(self, data)
       IN  IF rs.raised # "none" THEN Raised(rs.raised, rs.msg, rs.self)
           ELSE Returned([tag |-> "User activity logged",
                          rows |-> CountRows(Strip(data.s), FALSE)], rs.self)

RECURSIVE PySum(_)
PySum(elems) == IF elems = <<>> THEN 0 ELSE NumVal(Head(elems)) + PySum(Tail(elems))

\* round(q, 1), in tenths, as f"{q:.1f}" prints it
Round1(q) ==
  LET n == 10 * q[1]
      f == n \div q[2]
      r == n % q[2]
  IN  IF 2 * r < q[2] THEN f
      ELSE IF 2 * r > q[2] THEN f + 1
      ELSE IF f % 2 = 0 THEN f ELSE f + 1

StreamAdapter_process(self, data) ==
  IF data.type # "list"
  THEN Raised("ValueError", "Stream adapter requires list input", self)
  ELSE LET rs == run_stages(self, data)
           count == Len(data.elems)
           total == PySum(data.elems)
       IN  IF rs.raised # "none" THEN Raised(rs.raised, rs.msg, rs.self)
           ELSE IF \E i \in 1..count : ~IsNumber(data.elems[i])
           THEN Raised("ValueError", "Stream processing error", rs.self)
           ELSE IF count > 0 /\ Abs(total) > FloatMax * count
           THEN Raised("OverflowError",
                       "integer division result too large for a float", rs.self)
           ELSE Returned([tag |-> "Stream summary", count |-> count,
                          avg |-> IF count > 0 THEN Round1(TrueDiv(total, count))
                                  ELSE 0], rs.self)

\* pipeline.process(data), by the class of the pipeline
Pipeline_process(self, data) ==
  CASE self.adapter = "JSON" -> JSONAdapter_process(self, data)
    [] self.adapter = "CSV" -> CSVAdapter_process(self, data)
    [] self.adapter = "Stream" -> StreamAdapter_process(self, data)

(***************************************************************************)
(* NexusManager                                                            *)
(***************************************************************************)
NexusErrorEntry(id, msg) == [tag |-> "Error processing", id |-> id, msg |-> msg]

\* the for loop of NexusManager.process_all, from pipeline i on
RECURSIVE NexusProcessAllLoop(_, _, _)
NexusProcessAllLoop(data_map, i, acc) ==
  IF i > Len(acc.pipelines) THEN acc
  ELSE LET pipeline == acc.pipelines[i]
       IN  IF HasKey(data_map, pipeline.pipeline_id)
           THEN LET r == Pipeline_process(pipeline, Get(data_map, pipeline.pipeline_id))
                    upd == [acc EXCEPT !.pipelines[i] = r.self,
                                       !.invoked = Append(@, i)]
                IN  IF r.raised = "none"
                    THEN NexusProcessAllLoop(data_map, i + 1,
                           [upd EXCEPT !.results = Append(@, r.value)])
                    ELSE IF r.raised = "ValueError"
                    THEN NexusProcessAllLoop(data_map, i + 1,
                           [upd EXCEPT !.results =
                              Append(@, NexusErrorEntry(pipeline.pipeline_id, r.msg))])
                    ELSE [upd EXCEPT !.raised = r.raised]
           ELSE NexusProcessAllLoop(data_map, i + 1, acc)

Nexus_process_all(self_pipelines, data_map) ==
  NexusProcessAllLoop(data_map, 1,
    [pipelines |-> self_pipelines, results |-> <<>>, invoked |-> <<>>,
     raised |-> "none"])

FullStages == <<"Input", "Transform", "Output">>

\* the pipelines a run may register: two ids, three adapters, ids shared, one
\* pipeline whose only stage rejects every unprocessed input
PipelinePool ==
  {<<"A", "JSON", FullStages>>, <<"B", "CSV", FullStages>>,
   <<"A", "Stream", FullStages>>, <<"B", "Stream", <<"Output">>>>}

JsonOk == PyDict("value" :> PyInt(23) @@ "unit" :> PyStr(<<"C">>))

CsvOk == PyStr(<<"a", ",", "b", "\n", "c", ",", "d">>)

ListOk == PyList(<<PyInt(20), PyInt(21)>>)

\* a list of one int beyond the float range, such as [10 ** 400]
ListHuge == PyList(<<PyInt(FloatMax + 1)>>)

NexusIds == {"A", "B"}

NexusData == {JsonOk, CsvOk, ListOk, ListHuge}

DataMaps == {d \in DictsOver(NexusIds, NexusData) : Sorted(d)}

(***************************************************************************)
(* The two orchestrators                                                   *)
(***************************************************************************)
Init ==
  /\ prog \in {"streams", "nexus"}
  /\ streams = <<>>
  /\ log = <<>>
  /\ pipelines = <<>>
  /\ calls = 0
  /\ registered = <<>>
  /\ ret = NoCall

\* manager.add_pipeline(pipeline) with a newly built pipeline
AddPipeline ==
  /\ prog = "nexus"
  /\ Len(pipelines) < MaxStreams
  /\ \E p \in PipelinePool :
       /\ pipelines' = Append(pipelines, NewPipeline(p[2], p[1], p[3]))
       /\ registered' = Append(registered, p)
       /\ ret' = Outcome("add_pipeline", <<p>>, Returned(<<>>, <<>>))
  /\ UNCHANGED <<prog, streams, log, calls>>

\* manager.process_all(data_map)
NexusProcessAll ==
  /\ prog = "nexus"
  /\ calls < MaxDispatch
  /\ \E data_map \in DataMaps :
       \E r \in {Nexus_process_all(pipelines, data_map)} :
           /\ pipelines' = r.pipelines
           /\ ret' = DispatchOutcome("process_all", <<data_map>>, r)
  /\ calls' = calls + 1
  /\ UNCHANGED <<prog, streams, log, registered>>

Next == AddStream \/ StreamProcessAll \/ AddPipeline \/ NexusProcessAll

Spec == Init /\ [][Next]_vars

(***************************************************************************)
(* StreamProcessor with filter_all and get_all_stats                       *)
(***************************************************************************)
\* filtered[key] = value on a dict
DictPut(d, k, v) ==
  IF HasKey(d, k)
  THEN [j \in 1..Len(d) |-> IF d[j][1] = k THEN <<k, v>> ELSE d[j]]
  ELSE Append(d, <<k, v>>)

\* the for loop of StreamProcessor.filter_all, from stream i on
RECURSIVE FilterAllLoop(_, _, _, _, _)
FilterAllLoop(self_streams, batches, criteria, i, filtered) ==
  IF i > Len(self_streams) THEN filtered
  ELSE LET stream == self_streams[i]
       IN  IF HasKey(batches, stream.stream_id)
           THEN FilterAllLoop(self_streams, batches, criteria, i + 1,
                  DictPut(filtered, stream.stream_id,
                          filter_data(stream, Get(batches, stream.stream_id),
                                      criteria)))
           ELSE FilterAllLoop(self_streams, batches, criteria, i + 1, filtered)

\* StreamProcessor.filter_all: the dict of the filtered batches; the streams
\* are only read
filter_all(self_streams, batches, criteria) ==
  [streams |-> self_streams,
   results |-> FilterAllLoop(self_streams, batches, criteria, 1, <<>>),
   invoked |-> <<>>, raised |-> "none"]

\* StreamProcessor.get_all_stats: the streams are only read
get_all_stats(self_streams) ==
  [streams |-> self_streams,
   results |-> [i \in 1..Len(self_streams) |-> get_stats(self_streams[i])],
   invoked |-> <<>>, raised |-> "none"]

\* the batch-map handed to filter_all: a list batch for every id
FilterMaps ==
  {d \in BatchMaps : /\ Sorted(d)
                     /\ Keys(d) = Ids
                     /\ \A i \in 1..Len(d) : d[i][2].isList}

FilterCriteria == {<<"b", "u", "y">>}

InitFrame ==
  /\ prog = "frame"
  /\ streams = <<>>
  /\ log = <<>>
  /\ pipelines = <<>>
  /\ calls = 0
  /\ registered = <<>>
  /\ ret = NoCall

\* processor.filter_all(batches, criteria)
StreamFilterAll ==
  /\ prog = "frame"
  /\ \E batches \in FilterMaps, criteria \in FilterCriteria :
       \E r \in {filter_all(streams, batches, criteria)} :
           /\ streams' = r.streams
           /\ ret' = DispatchOutcome("filter_all", <<batches, criteria>>, r)
  /\ UNCHANGED <<prog, log, pipelines, calls, registered>>

\* processor.get_all_stats()
StreamGetAllStats ==
  /\ prog = "frame"
  /\ \E r \in {get_all_stats(streams)} :
       /\ streams' = r.streams
       /\ ret' = DispatchOutcome("get_all_stats", <<>>, r)
  /\ UNCHANGED <<prog, log, pipelines, calls, registered>>

NextFrame == AddStream \/ StreamProcessAll \/ StreamFilterAll \/ StreamGetAllStats

SpecFrame == InitFrame /\ [][NextFrame]_vars

(***************************************************************************)
(* One pipeline, called directly                                           *)
(***************************************************************************)
\* what run_stages and process are handed
PipelineData ==
  {PyNone, JsonOk,
   PyDict("value" :> PyStr(<<"x">>)),
   PyDict("validated" :> PyBool(TRUE) @@ "value" :> PyInt(70)),
   PyDict("validated" :> PyBool(FALSE) @@ "transformed" :> PyBool(TRUE)),
   CsvOk, PyStr(<<>>), ListOk, ListHuge, PyList(<<PyStr(<<"x">>)>>)}

InitPipeline ==
  /\ prog = "pipeline"
  /\ streams = <<>>
  /\ log = <<>>
  /\ \E adapter \in {"JSON", "CSV", "Stream"} :
       pipelines = <<NewPipeline(adapter, "P", <<>>)>>
  /\ calls = 0
  /\ registered = <<>>
  /\ ret = NoCall

\* pipeline.add_stage(stage)
CallAddStage ==
  /\ prog = "pipeline"
  /\ Len(pipelines[1].stages) < MaxStages
  /\ \E stage \in Stages :
       /\ pipelines' = <<[pipelines[1] EXCEPT !.stages = Append(@, stage)]>>
       /\ ret' = Outcome("add_stage", <<stage>>, Returned(<<>>, <<>>))
  /\ UNCHANGED <<prog, streams, log, calls, registered>>

PipelineOutcome(op, args, r, ran) ==
  [op |-> op, args |-> args, raised |-> r.raised, msg |-> r.msg, value |-> r.value,
   invoked |-> ran]

\* the isinstance test at the head of each adapter's process
AdapterAccepts(adapter, data) ==
  CASE adapter = "JSON" -> IsDict(data)
    [] adapter = "CSV" -> data.type = "str"
    [] adapter = "Stream" -> data.type = "list"

\* the for loop of run_stages ran to its end: 1 if so, 0 if a stage raised
LoopCompleted(self, data) ==
  IF RunStagesLoop(self.stages, 1, data, 0).raised = "none" THEN 1 ELSE 0

\* pipeline.run_stages(data); calls counts the calls in which the loop over
\* the stages ran to its end
CallRunStages ==
  /\ prog = "pipeline"
  /\ pipelines[1].records_processed < MaxRecords
  /\ \E data \in PipelineData :
       \E r \in {run_stages(pipelines[1], data)} :
           /\ pipelines' = <<r.self>>
           /\ calls' = calls + LoopCompleted(pipelines[1], data)
           /\ ret' = PipelineOutcome("run_stages", <<data>>, r, r.ran)
  /\ UNCHANGED <<prog, streams, log, registered>>

\* pipeline.process(data)
CallProcess ==
  /\ prog = "pipeline"
  /\ pipelines[1].records_processed < MaxRecords
  /\ \E data \in PipelineData :
       \E r \in {Pipeline_process(pipelines[1], data)} :
           /\ pipelines' = <<r.self>>
           /\ calls' = calls + IF AdapterAccepts(pipelines[1].adapter, data)
                                THEN LoopCompleted(pipelines[1], data) ELSE 0
           /\ ret' = PipelineOutcome("process", <<data>>, r, 0)
  /\ UNCHANGED <<prog, streams, log, registered>>

NextPipeline == CallAddStage \/ CallRunStages \/ CallProcess

SpecPipeline == InitPipeline /\ [][NextPipeline]_vars

(***************************************************************************)
(* ex0: the three DataProcessor classes                                    *)
(***************************************************************************)
Processors == {"Numeric", "Text", "Log"}

\* s.split(":"): the parts between the ":" of s
RECURSIVE SplitColon(_)
SplitColon(s) ==
  IF HasColon(s) THEN <<Split1(s)[1]>> \o SplitColon(Split1(s)[2]) ELSE <<s>>

\* len(s.split()): the number of maximal runs of non-whitespace characters
RECURSIVE CountWords(_, _)
CountWords(s, inWord) ==
  IF s = <<>> THEN 0
  ELSE IF IsSpace(Head(s)) THEN CountWords(Tail(s), FALSE)
  ELSE IF inWord THEN CountWords(Tail(s), TRUE)
  ELSE 1 + CountWords(Tail(s), TRUE)

\* str(q) of a float quotient, to hundredths: sign, integer part, ".", one
\* or two decimals; the characters are digits, "-" and "." only
FloatStr(q) ==
  LET h == Round2(q)
      frac == Abs(h) % 100
  IN  (IF h < 0 THEN <<"-">> ELSE <<>>) \o NatStr(Abs(h) \div 100) \o <<".">> \o
      (IF frac % 10 = 0 THEN NatStr(frac \div 10)
       ELSE NatStr(frac \div 10) \o NatStr(frac % 10))

Numeric_validate(data) ==
  data.type = "list" /\ \A i \in 1..Len(data.elems) : IsNumber(data.elems[i])

Numeric_process(data) ==
  IF ~Numeric_validate(data)
  THEN Raised("ValueError", "Numeric validation error", <<>>)
  ELSE LET summary == PySum(data.elems)
           n == Len(data.elems)
       IN  IF n = 0 THEN Raised("ZeroDivisionError", "division by zero", <<>>)
           ELSE IF Abs(summary) > FloatMax * n
           THEN Raised("OverflowError",
                       "integer division result too large for a float", <<>>)
           ELSE Returned(NatStr(n) \o <<":">> \o Fmt0f(summary) \o <<":">> \o
                         FloatStr(TrueDiv(summary, n)), <<>>)

\* the unpacking of result.split(":") into n names
Unpack(result, n) ==
  LET parts == SplitColon(result)
  IN  IF Len(parts) > n
      THEN Raised("ValueError", "too many values to unpack", <<>>)
      ELSE IF Len(parts) < n
      THEN Raised("ValueError", "not enough values to unpack", <<>>)
      ELSE Returned(parts, <<>>)

Numeric_format_output(result) ==
  LET u == Unpack(result, 3)
  IN  IF u.raised # "none" THEN u
      ELSE Returned([tag |-> "Output: Processed numeric values",
                     fields |-> u.value], <<>>)

Text_validate(data) == data.type = "str"

Text_process(data) ==
  IF ~Text_validate(data)
  THEN Raised("ValueError", "Text validation error", <<>>)
  ELSE Returned(NatStr(Len(data.s)) \o <<":">> \o NatStr(CountWords(data.s, FALSE)),
                <<>>)

Text_format_output(result) ==
  LET u == Unpack(result, 2)
  IN  IF u.raised # "none" THEN u
      ELSE Returned([tag |-> "Output: Processed text", fields |-> u.value], <<>>)

Log_validate(data) == data.type = "str" /\ HasColon(data.s)

Log_process(data) ==
  IF ~Log_validate(data)
  THEN Raised("ValueError", "Log validation error", <<>>)
  ELSE LET level == Split1(data.s)[1]
           message == Split1(data.s)[2]
       IN  Returned(level \o <<":">> \o message, <<>>)

Log_format_output(result) ==
  LET u == Unpack(result, 2)
  IN  IF u.raised # "none" THEN u
      ELSE Returned([tag |-> IF u.value[1] = <<"E", "R", "R", "O", "R">>
                             THEN "Output: [ALERT]" ELSE "Output: [INFO]",
                     fields |-> u.value], <<>>)

\* dynamic dispatch on the class of the processor
validate(self, data) ==
  CASE self = "Numeric" -> Numeric_validate(data)
    [] self = "Text" -> Text_validate(data)
    [] self = "Log" -> Log_validate(data)

process(self, data) ==
  CASE self = "Numeric" -> Numeric_process(data)
    [] self = "Text" -> Text_process(data)
    [] self = "Log" -> Log_process(data)

format_output(self, result) ==
  CASE self = "Numeric" -> Numeric_format_output(result)
    [] self = "Text" -> Text_format_output(result)
    [] self = "Log" -> Log_format_output(result)

\* what the processors are handed: the lists over a few elements, some
\* strings, and values that are neither
ProcessorElems == {PyInt(3), PyInt(FloatMax + 1), PyStr(<<"a">>)}

ProcessorStrings ==
  {<<>>, <<"a", "b">>, <<"a", " ", "b">>, <<":">>, <<"a", ":", "b", ":", "c">>,
   <<"E", "R", "R", "O", "R", ":", " ", "x">>, <<"I", "N", "F", "O", ":", "o", "k">>,
   <<" ", "a", ":", " ">>}

ProcessorData ==
  {PyList(e) : e \in SeqsUpTo(ProcessorElems, MaxItems)} \cup
  {PyStr(s) : s \in ProcessorStrings} \cup {PyNone, PyInt(5)}

InitProcessor ==
  /\ prog = "processor"
  /\ streams = <<>>
  /\ log = <<>>
  /\ pipelines = <<>>
  /\ calls = 0
  /\ registered = <<>>
  /\ ret = NoCall

\* processor.validate(data)
ProcessorValidate ==
  /\ prog = "processor"
  /\ \E self \in Processors, data \in ProcessorData :
       ret' = Outcome("validate", <<self, data>>,
                      Returned(validate(self, data), <<>>))
  /\ UNCHANGED <<prog, streams, log, pipelines, calls, registered>>

\* result = processor.process(data)
ProcessorProcess ==
  /\ prog = "processor"
  /\ \E self \in Processors, data \in ProcessorData :
       ret' = Outcome("process", <<self, data>>, process(self, data))
  /\ UNCHANGED <<prog, streams, log, pipelines, calls, registered>>

\* processor.format_output(result), result being what process just returned
ProcessorFormatOutput ==
  /\ prog = "processor"
  /\ ret.op = "process"
  /\ ret.raised = "none"
  /\ ret' = Outcome("format_output", <<ret.args[1], ret.value, ret.args[2]>>,
                    format_output(ret.args[1], ret.value))
  /\ UNCHANGED <<prog, streams, log, pipelines, calls, registered>>

NextProcessor == ProcessorValidate \/ ProcessorProcess \/ ProcessorFormatOutput

SpecProcessor == InitProcessor /\ [][NextProcessor]_vars

(***************************************************************************)
(* Properties of the workers                                               *)
(***************************************************************************)
\* "<label>:<number>": a string with a ":" whose part after the first ":"
\* is a number
WellFormed(item) ==
  IsStr(item) /\ \E i \in 1..Len(item.s) :
                   /\ item.s[i] = ":"
                   /\ \A j \in 1..(i - 1) : item.s[j] # ":"
                   /\ ParseFloat(SubSeq(item.s, i + 1, Len(item.s))).ok

NumberOf(item) == ParseFloat(Split1(item.s)[2]).v

ActionOf(item) == StrLower(Strip(Split1(item.s)[1]))

IsErrorItem(item) == IsStr(item) /\ StrLower(Strip(item.s)) = ErrorWord

\* what a worker of this kind expects of an item
Expected(kind, item) == IF kind = "Event" THEN IsStr(item) ELSE WellFormed(item)

CountOf(items, P(_)) == Cardinality({i \in 1..Len(items) : P(items[i])})

SumOver(items, P(_), V(_)) ==
  SeqSum([i \in 1..Len(items) |-> IF P(items[i]) THEN V(items[i]) ELSE 0])

RECURSIVE Flatten(_)
Flatten(batches) ==
  IF batches = <<>> THEN <<>> ELSE Head(batches) \o Flatten(Tail(batches))

TheWorker == streams[1]

\* every item of every batch the worker has processed, in order
AllItems == Flatten(log[1])

ProcessReturned == ret.op = "process_batch" /\ ret.raised = "none"

LastBatch == ret.args[1].items

\* C3 as claimed: process fails with ValidationError when the batch is not a
\* sequence, or when no element of the batch has the format the kind expects.
C3_FailsWithoutMatch ==
  ret.op = "process_batch" =>
    ((~ret.args[1].isList
      \/ \A i \in 1..Len(LastBatch) : ~Expected(TheWorker.kind, LastBatch[i]))
     => ret.raised = "ValueError")

\* C3 amended: process fails with ValidationError exactly when the batch is
\* not a list; a list with no element of the expected format returns a
\* summary with count 0.
C3_FailsOnlyOnNonList ==
  ret.op = "process_batch" =>
    /\ ret.raised \in {"none", "ValueError"}
    /\ ret.raised = "ValueError" <=> ~ret.args[1].isList
    /\ (/\ ret.args[1].isList
        /\ \A i \in 1..Len(LastBatch) : ~Expected(TheWorker.kind, LastBatch[i]))
       => ret.value.count = 0

C3_Witness ==
  /\ ProcessReturned
  /\ Len(LastBatch) = 2
  /\ \A i \in 1..2 : ~Expected(TheWorker.kind, LastBatch[i])
  /\ ret.value.count = 0

\* the counters of get_stats against the aggregation of all batches so far
StatsCountsAggregate ==
  LET st == get_stats(TheWorker)
  IN  CASE TheWorker.kind = "Sensor" ->
             st.total_processed = CountOf(AllItems, WellFormed)
        [] TheWorker.kind = "Transaction" ->
             st.total_operations = CountOf(AllItems, WellFormed)
        [] TheWorker.kind = "Event" ->
             /\ st.total_events = CountOf(AllItems, IsStr)
             /\ st.error_count = CountOf(AllItems, IsErrorItem)

\* C4 as claimed: after any sequence of process calls the cumulative stats
\* equal the aggregation of all batches, and the numeric worker's reported
\* average (here in hundredths) is the sum of all values divided by their count.
C4_StatsExactAverage ==
  /\ StatsCountsAggregate
  /\ TheWorker.kind = "Sensor" =>
       LET n == CountOf(AllItems, WellFormed)
       IN  get_stats(TheWorker).average_value * n
             = 100 * SumOver(AllItems, WellFormed, NumberOf)

\* C4 amended: as claimed, except that the reported average is that quotient
\* rounded to two decimals (0.0 when nothing was processed).
C4_StatsRoundedAverage ==
  /\ StatsCountsAggregate
  /\ ret.op = "get_stats" => ret.value = get_stats(TheWorker)
  /\ TheWorker.kind = "Sensor" =>
       LET n == CountOf(AllItems, WellFormed)
           total == SumOver(AllItems, WellFormed, NumberOf)
           h == get_stats(TheWorker).average_value
       IN  IF n = 0 THEN h = 0
           ELSE /\ 2 * Abs(h * n - 100 * total) <= n
                /\ 2 * Abs(h * n - 100 * total) = n => h % 2 = 0

C4_Witness ==
  /\ ret.op = "get_stats"
  /\ TheWorker.kind = "Sensor"
  /\ Len(log[1]) = 2
  /\ Len(log[1][1]) > 0 /\ Len(log[1][2]) > 0
  /\ ret.value.total_processed = 3
  /\ ret.value.average_value = 2267

\* C5: the numeric worker's summary counts the well-formed items of this
\* batch and averages their values, whatever was processed before; items
\* whose number does not parse are skipped; no such item gives 0 and 0.0.
C5_BatchSummary ==
  (ProcessReturned /\ TheWorker.kind = "Sensor") =>
    LET n == CountOf(LastBatch, WellFormed)
        total == SumOver(LastBatch, WellFormed, NumberOf)
    IN  /\ ret.value.count = n
        /\ ret.value.avg[2] > 0
        /\ ret.value.avg[1] * n = total * ret.value.avg[2]
        /\ n = 0 => ret.value.avg = <<0, 1>>

C5_Witness ==
  /\ ProcessReturned /\ TheWorker.kind = "Sensor"
  /\ Len(log[1]) = 2
  /\ CountOf(log[1][1], WellFormed) = 1
  /\ Len(LastBatch) = 2
  /\ ret.value.count = 1
  /\ ret.value.avg # TrueDiv(SeqSum(TheWorker.history), Len(TheWorker.history))

IsBuy(item) == WellFormed(item) /\ ActionOf(item) = <<"b", "u", "y">>

IsSell(item) == WellFormed(item) /\ ActionOf(item) = <<"s", "e", "l", "l">>

Example6 ==
  <<Str(<<"b", "u", "y", ":", "1", "0", "0">>),
    Str(<<"s", "e", "l", "l", ":", "1", "5", "0">>),
    Str(<<"b", "u", "y", ":", "7", "5">>)>>

\* C6: the financial worker's net flow is the sum of all "buy" amounts minus
\* the sum of all "sell" amounts over every batch so far; each summary prints
\* that cumulative total without decimals, with a leading "+" when it is not
\* negative; a fresh worker given buy:100, sell:150, buy:75 reports 3
\* operations and +25.
C6_NetFlow ==
  TheWorker.kind = "Transaction" =>
    LET net == SumOver(AllItems, IsBuy, NumberOf) - SumOver(AllItems, IsSell, NumberOf)
    IN  /\ TheWorker.total_net_flow = net
        /\ ProcessReturned =>
             /\ ret.value.count = CountOf(LastBatch, WellFormed)
             /\ ParseFloat(ret.value.net) = [ok |-> TRUE, v |-> net]
             /\ Head(ret.value.net) = "+" <=> net >= 0
             /\ Head(ret.value.net) = "-" <=> net < 0
        /\ (ProcessReturned /\ log[1] = <<Example6>>) =>
             /\ ret.value.count = 3
             /\ ret.value.net = <<"+", "2", "5">>

C6_Witness ==
  /\ TheWorker.kind = "Transaction"
  /\ ProcessReturned
  /\ log[1] = <<Example6>>
  /\ ret.value.net = <<"+", "2", "5">>

Example7 ==
  <<Str(<<"l", "o", "g", "i", "n">>), Str(<<"e", "r", "r", "o", "r">>),
    Str(<<"l", "o", "g", "o", "u", "t">>)>>

\* C7: for the event worker every string item is one event and every item
\* equal to "error" (trimmed, whatever the case) is one error, per batch and
\* cumulatively; other items are not counted; login, error, logout gives 3
\* events and 1 error; error_count never exceeds events_count.
C7_EventCounts ==
  TheWorker.kind = "Event" =>
    /\ TheWorker.events_count = CountOf(AllItems, IsStr)
    /\ TheWorker.error_count = CountOf(AllItems, IsErrorItem)
    /\ TheWorker.error_count <= TheWorker.events_count
    /\ ProcessReturned =>
         /\ ret.value.count = CountOf(LastBatch, IsStr)
         /\ ret.value.errors = CountOf(LastBatch, IsErrorItem)
         /\ LastBatch = Example7 => (ret.value.count = 3 /\ ret.value.errors = 1)

C7_Witness ==
  /\ TheWorker.kind = "Event"
  /\ ProcessReturned
  /\ LastBatch = Example7
  /\ ret.value.count = 3 /\ ret.value.errors = 1
  /\ Len(log[1]) = 2

(***************************************************************************)
(* Properties of filter_data                                               *)
(***************************************************************************)
IsPrefixOf(p, s) == Len(p) <= Len(s) /\ \A i \in 1..Len(p) : s[i] = p[i]

\* the rule of each kind: numeric and financial keep the strings that start
\* with the criteria, event keeps the strings that, trimmed, equal the
\* criteria whatever the case
Matches(kind, item, criteria) ==
  IF kind = "Event"
  THEN IsStr(item) /\ StrLower(Strip(item.s)) = StrLower(criteria)
  ELSE IsStr(item) /\ IsPrefixOf(criteria, item.s)

\* the k-th smallest element of a set of positions
Kth(positions, k) ==
  CHOOSE i \in positions : Cardinality({j \in positions : j <= i}) = k

\* C8: without criteria filter returns the batch unchanged; with criteria it
\* returns, in the original order, exactly the items that match the rule of
\* the worker's kind.
C8_Filter ==
  ret.op = "filter_data" =>
    LET items == ret.args[1].items
        criteria == ret.args[2]
        kept == {i \in 1..Len(items) : Matches(TheWorker.kind, items[i], criteria)}
    IN  IF criteria = <<>> THEN ret.value = ret.args[1]
        ELSE /\ ret.value.isList
             /\ Len(ret.value.items) = Cardinality(kept)
             /\ \A k \in 1..Cardinality(kept) : ret.value.items[k] = items[Kth(kept, k)]

C8_Witness ==
  /\ ret.op = "filter_data"
  /\ TheWorker.kind = "Event"
  /\ ret.args[2] = <<"E", "R", "R", "O", "R">>
  /\ ret.args[1].items = <<Str(<<" ", "E", "R", "R", "O", "R", " ">>),
                           Str(<<"l", "o", "g", "i", "n">>)>>
  /\ Len(ret.value.items) = 1

(***************************************************************************)
(* Properties of the stages                                                *)
(***************************************************************************)
FlagNames == {"validated", "transformed", "enriched", "delivered"}

\* the flags a value carries: the flag keys of a dict that hold a true value
FlagsOf(x) ==
  IF IsDict(x) THEN {k \in DOMAIN x.d \cap FlagNames : Truthy(x.d[k])} ELSE {}

\* The stages as the claim describes them, on flag sets alone: input needs a
\* value other than None and yields a record with just "validated";
\* transform needs "validated" and adds "transformed" and "enriched"; output
\* needs "transformed" and adds "delivered".  failed is the position of the
\* first stage whose requirement is not met, 0 when all are met.
RECURSIVE Described(_, _, _, _)
Described(stages, i, isNone, flags) ==
  IF i > Len(stages) THEN [failed |-> 0, flags |-> flags]
  ELSE CASE stages[i] = "Input" ->
              IF isNone THEN [failed |-> i, flags |-> flags]
              ELSE Described(stages, i + 1, FALSE, {"validated"})
         [] stages[i] = "Transform" ->
              IF "validated" \notin flags THEN [failed |-> i, flags |-> flags]
              ELSE Described(stages, i + 1, FALSE,
                             flags \cup {"transformed", "enriched"})
         [] stages[i] = "Output" ->
              IF "transformed" \notin flags THEN [failed |-> i, flags |-> flags]
              ELSE Described(stages, i + 1, FALSE, flags \cup {"delivered"})

ThePipeline == pipelines[1]

\* C10: each stage enforces its precondition (input: not None; transform:
\* "validated"; output: "transformed") and sets its flags; with stages input,
\* transform, output every input other than None comes out carrying all four
\* flags; in any stage order the first stage reached without its required
\* flag raises ValidationError and no later stage runs.
C10_Stages ==
  ret.op = "run_stages" =>
    LET data == ret.args[1]
        d == Described(ThePipeline.stages, 1, data.type = "none", FlagsOf(data))
    IN  /\ d.failed = 0 =>
             /\ ret.raised = "none"
             /\ ret.invoked = Len(ThePipeline.stages)
             /\ FlagsOf(ret.value) = d.flags
        /\ d.failed # 0 =>
             /\ ret.raised = "ValueError"
             /\ ret.invoked = d.failed
        /\ (ThePipeline.stages = FullStages /\ data.type # "none") =>
             /\ ret.raised = "none"
             /\ FlagsOf(ret.value) = FlagNames

C10_Witness ==
  /\ ret.op = "run_stages"
  /\ ThePipeline.stages = FullStages
  /\ ret.args[1] = CsvOk
  /\ ret.raised = "none"
  /\ FlagsOf(ret.value) = FlagNames
  /\ ret.invoked = 3

\* a stage order in which a stage is reached without its flag
C10_WitnessRaise ==
  /\ ret.op = "run_stages"
  /\ ThePipeline.stages = <<"Input", "Output", "Transform">>
  /\ ret.raised = "ValueError"
  /\ ret.invoked = 2

(***************************************************************************)
(* Properties of the orchestrators                                         *)
(***************************************************************************)
\* the ids of the registry, in order
RegistryIds ==
  IF prog = "nexus" THEN [i \in 1..Len(pipelines) |-> pipelines[i].pipeline_id]
  ELSE [i \in 1..Len(streams) |-> streams[i].stream_id]

Dispatched == ret.op = "process_all"

\* the positions of the registered workers whose id is a key of the map
Matched == {i \in 1..Len(RegistryIds) : HasKey(ret.args[1], RegistryIds[i])}

IsErrorEntry(e) == e.tag = "Error processing"

SummaryTag(kind) ==
  CASE kind = "Sensor" -> "Sensor analysis"
    [] kind = "Transaction" -> "Transaction analysis"
    [] kind = "Event" -> "Event analysis"

\* C1: dispatch never raises; it returns one entry per registered worker
\* whose id is a key of the batch-map; when exactly one of these workers has
\* a malformed batch, exactly one entry is "Error processing <id>: <message>",
\* for that worker, and every other entry is a normal summary.
C1_DispatchNeverRaises ==
  Dispatched =>
    /\ ret.raised = "none"
    /\ Len(ret.value) = Cardinality(Matched)
    /\ prog = "streams" =>
         LET bad == {i \in Matched : ~Get(ret.args[1], RegistryIds[i]).isList}
         IN  Cardinality(bad) = 1 =>
               \A k \in 1..Len(ret.value) :
                 IF Kth(Matched, k) \in bad
                 THEN /\ IsErrorEntry(ret.value[k])
                      /\ ret.value[k].id = RegistryIds[Kth(Matched, k)]
                      /\ ret.value[k].msg = "data_batch should be a list!"
                 ELSE ret.value[k].tag = SummaryTag(streams[Kth(Matched, k)].kind)

\* the part of C1 that concerns StreamProcessor
C1_StreamsOnly == prog = "streams" => C1_DispatchNeverRaises

\* C2: the i-th result of a dispatch belongs to the i-th registered worker
\* that is present in the batch-map, whatever the insertion order of the
\* map's keys; workers registered as A, B, C give results in the order A, B, C.
C2_RegistrationOrder ==
  (prog = "streams" /\ Dispatched) =>
    /\ Len(ret.invoked) = Cardinality(Matched)
    /\ Len(ret.value) = Cardinality(Matched)
    /\ \A k \in 1..Cardinality(Matched) :
         /\ ret.invoked[k] = Kth(Matched, k)
         /\ IF Get(ret.args[1], RegistryIds[Kth(Matched, k)]).isList
            THEN ret.value[k].tag = SummaryTag(streams[Kth(Matched, k)].kind)
            ELSE /\ IsErrorEntry(ret.value[k])
                 /\ ret.value[k].id = RegistryIds[Kth(Matched, k)]

C2_Witness ==
  /\ prog = "streams" /\ Dispatched
  /\ RegistryIds = <<"A", "B", "C">>
  /\ [i \in 1..Len(ret.args[1]) |-> ret.args[1][i][1]] = <<"C", "A", "B">>
  /\ [k \in 1..Len(ret.value) |-> ret.value[k].tag]
       = <<"Sensor analysis", "Transaction analysis", "Event analysis">>

\* the positions of the registered workers with this id
WithId(id) == {i \in 1..Len(RegistryIds) : RegistryIds[i] = id}

\* C9: register never rejects or replaces a worker: the registry holds every
\* registered worker, in registration order, also when ids are shared; a
\* dispatch whose batch-map has an id that k workers share calls process on
\* each of the k and produces a result entry for each.
C9_DuplicatesCoexist ==
  /\ RegistryIds = [i \in 1..Len(registered) |-> registered[i][1]]
  /\ Dispatched =>
       \A id \in Keys(ret.args[1]) :
         Cardinality(WithId(id)) >= 2 =>
           /\ \A i \in WithId(id) : \E k \in 1..Len(ret.invoked) : ret.invoked[k] = i
           /\ Len(ret.value) = Cardinality(Matched)

C9_StreamsOnly == prog = "streams" => C9_DuplicatesCoexist

(***************************************************************************)
(* Properties of records_processed                                         *)
(***************************************************************************)
\* the top-level type each adapter expects
ExpectedType(adapter) ==
  CASE adapter = "JSON" -> "dict" [] adapter = "CSV" -> "str" [] adapter = "Stream" -> "list"

\* all stages of the pipeline accept the record, by the stages' description
StagesPass(self, data) ==
  Described(self.stages, 1, data.type = "none", FlagsOf(data)).failed = 0

\* one call of process or run_stages: the counter goes up by one exactly when
\* the record passed all stages (for process: and the adapter accepted its
\* top-level type), whatever the adapter's formatting step does afterwards
C11_Step ==
  LET self == pipelines[1]
      after == pipelines'[1].records_processed
      data == ret'.args[1]
  IN  /\ ret'.op = "add_stage" => after = self.records_processed
      /\ ret'.op = "run_stages" =>
            after = self.records_processed + IF StagesPass(self, data) THEN 1 ELSE 0
      /\ ret'.op = "process" =>
            /\ after = self.records_processed +
                  IF data.type = ExpectedType(self.adapter) /\ StagesPass(self, data)
                  THEN 1 ELSE 0
            /\ ret'.raised = "none" => after = self.records_processed + 1

\* C11: records_processed goes up by exactly one each time a record has
\* passed all stages, before the adapter's own step: it is unchanged when the
\* adapter rejects the top-level type or a stage raises, it is already
\* incremented when the adapter's formatting fails; after any sequence of
\* calls it equals the number of calls whose stage sequence completed.
C11_RecordsProcessed ==
  /\ [](prog = "pipeline" => pipelines[1].records_processed = calls)
  /\ [][prog = "pipeline" => C11_Step]_vars

\* the stages completed, the counter went up, then the formatting failed
C11_Witness ==
  /\ prog = "pipeline"
  /\ ret.op = "process"
  /\ ret.raised = "ValueError"
  /\ ret.msg \in {"JSON processing error", "Stream processing error"}
  /\ pipelines[1].stages = FullStages
  /\ pipelines[1].records_processed = 2
  /\ calls = 2

(***************************************************************************)
(* Frame of the workers' state                                             *)
(***************************************************************************)
\* worker i before and after one call on the processor
C12_Step ==
  \A i \in 1..Len(streams) :
    LET before == streams[i]
        after == streams'[i]
        id == before.stream_id
        batches == ret'.args[1]
    IN  /\ Len(streams') >= Len(streams)
        /\ after.stream_id = id
        /\ after.kind = before.kind
        /\ ret'.op \in {"add_stream", "filter_all", "get_all_stats"} => after = before
        /\ ret'.op = "process_all" =>
              /\ ~HasKey(batches, id) => after = before
              /\ (HasKey(batches, id) /\ ~Get(batches, id).isList) => after = before
              /\ (HasKey(batches, id) /\ Get(batches, id).isList) =>
                    after = process_batch(before, Get(batches, id)).self
        /\ after # before =>
              /\ ret'.op = "process_all"
              /\ HasKey(batches, id)
              /\ Get(batches, id).isList

\* C12: a worker's accumulated state and id change only by a successful
\* process call on that worker: a dispatch leaves the workers whose id is
\* not a key unchanged, a matched worker becomes what its own process call
\* on its own batch makes of it, filter_all, get_all_stats and add_stream
\* change no worker, and a process call failing on a non-list batch leaves
\* the worker as it was.
C12_Frame == [][prog = "frame" => C12_Step]_vars

\* A, B, C registered; the dispatch gave A a list, B a non-list, C nothing:
\* only A has changed
C12_Witness ==
  /\ prog = "frame"
  /\ registered = <<<<"A", "Sensor">>, <<"B", "Transaction">>, <<"C", "Event">>>>
  /\ ret.op = "process_all"
  /\ ret.args[1] = <<<<"A", MixedBatch>>, <<"B", NotAList>>>>
  /\ streams[1].history # <<>>
  /\ streams[2] = NewStream("Transaction", "B")
  /\ streams[3] = NewStream("Event", "C")

\* filter_all and get_all_stats after a dispatch that changed a worker
C12_WitnessFilter ==
  /\ prog = "frame"
  /\ ret.op = "filter_all"
  /\ ret.args[1] # <<>>
  /\ calls = 1
  /\ \E i \in 1..Len(streams) :
       /\ streams[i] # NewStream(streams[i].kind, streams[i].stream_id)
       /\ HasKey(ret.value, streams[i].stream_id)

(***************************************************************************)
(* Properties of the ex0 processors                                        *)
(***************************************************************************)
\* C13: validate is a sufficient precondition: when validate(data) is true,
\* process(data) returns and format_output of its result returns; when
\* validate(data) is false, process raises ValueError and nothing else.
C13_ValidateSufficient ==
  prog = "processor" =>
    /\ ret.op = "process" =>
          IF validate(ret.args[1], ret.args[2])
          THEN ret.raised = "none" ELSE ret.raised = "ValueError"
    /\ ret.op = "format_output" => ret.raised = "none"

\* the half that holds: an input validate rejects makes process raise
\* ValueError, and process raises ValueError for no other input
C13_RejectsInvalid ==
  (prog = "processor" /\ ret.op = "process") =>
    (ret.raised = "ValueError" <=> ~validate(ret.args[1], ret.args[2]))

\* the processors' results on the inputs of the ex0 script's kind
C13_Valid ==
  /\ prog = "processor"
  /\ ret.op = "format_output"
  /\ ret.raised = "none"
  /\ ret.args[1] = "Log"
  /\ ret.value.tag = "Output: [ALERT]"

====
